---- MODULE Spec2Model ----
(***************************************************************************)
(* Backbone.BootstrapModal (src/src/backbone.bootstrap-modal.js): a        *)
(* Backbone view that wraps the Bootstrap modal widget.                    *)
(*                                                                         *)
(* The model is the single-threaded event loop of the page.  Every action  *)
(* is one whole handler run to completion: a public method called by the   *)
(* application (open, close, render), a DOM event delivered to a handler   *)
(* the Modal registered (clicks, keyup), or a step of the Dialog Widget    *)
(* (its 'shown' / 'hidden' signals, its own dismissal, the continuation of *)
(* a custom animate hook).  The Dialog Widget, jQuery and the application's *)
(* listeners are the environment: the widget may deliver a signal during   *)
(* the command that causes it or later, a listener may or may not call     *)
(* preventClose().                                                         *)
(***************************************************************************)
EXTENDS Integers, Sequences, FiniteSets, TLC

\* Number of Modal instances the application constructs.
NumModals == 2
\* Number of times the application and the user act (calls of render(),
\* open() and close(), clicks, key presses) in a session, and in a short one.
MaxEvents == 3
ShortEvents == 2

Modals == 1..NumModals

\* The Escape key code tested at line 210, and some other key.
EscapeKey == 27
OtherKey == 65
Keys == {EscapeKey, OtherKey}

VARIABLES
    options,          \* this.options of each instance (initialize, 107-117)
    isRendered,       \* this.isRendered (156)
    preventCloseFlag, \* this._preventClose (241, 271)
    count,            \* Modal.count (277)
    numModals,        \* var numModals of the last open() (192)
    cancelListeners,  \* internal 'cancel' listeners registered by open (218)
    okCallbacks,      \* callbacks registered on 'ok' by open(cb) (226)
    oneShown,         \* $el.one('shown', ...) handlers not yet run (179)
    oneHidden,        \* $el.one('hidden', ...) handlers not yet run (253)
    keyupHandlers,    \* $(document).one('keyup.dismiss.modal') handlers (209)
    backdropClick,    \* $backdrop.one('click') handlers, per backdrop (201)
    pendingHook,      \* continuations handed to the animate hook (246)
    inDocument,       \* whether this.el is attached to the document
    eventsBound,      \* whether the handlers of the events hash (55-87) are bound to this.el
    isShown,          \* Dialog Widget: displayed (show commanded, not hidden)
    pendingShown,     \* Dialog Widget: 'shown' signal still to be delivered
    pendingHidden,    \* Dialog Widget: 'hidden' signal still to be delivered
    backdrops,        \* the .modal-backdrop elements of the document, in order
    decrements,       \* how many times close() ran Modal.count-- for each instance (263)
    events,           \* how many times the application and the user have acted
    eventLimit,       \* how many times they act in this session
    trace             \* what has run since the application or the user acted last, in order

vars == <<options, isRendered, preventCloseFlag, count, numModals,
          cancelListeners, okCallbacks, oneShown, oneHidden, keyupHandlers,
          backdropClick, pendingHook, inDocument, eventsBound, isShown,
          pendingShown, pendingHidden, backdrops, decrements, events,
          eventLimit, trace>>

\* ---------------------------------------------------------------- options

\* initialize (107-117): the supplied options merged over the defaults.  The
\* fields are the ones the code branches on, and escape, which it documents:
\*   content  "none" (no content option), "string", or "view" (an object
\*            with $el, render and trigger)
\*   animate  "none" (false or true: a CSS class only) or "hook" (a function)
\*   backdrop "default" (undefined or truthy) or "off" (a falsy override)
\* A title is set and cancelText keeps its default, so that the default
\* template (25-45) renders the close icon and the Cancel button whenever
\* allowCancel holds.
OptionSets ==
    [content : {"none", "string", "view"}, allowCancel : BOOLEAN,
     okCloses : BOOLEAN, escape : BOOLEAN, animate : {"none", "hook"},
     backdrop : {"default", "off"}]

\* The defaults of initialize (108-116) with a string content.
DefaultOptions ==
    [content |-> "string", allowCancel |-> TRUE, okCloses |-> TRUE,
     escape |-> TRUE, animate |-> "none", backdrop |-> "default"]

\* The option sets the first instance is constructed with: every combination
\* of content kind, allowCancel and okCloses, and the defaults with one of
\* content, escape, animate and backdrop changed.
Rare(o) ==
    (IF o.content = "none" THEN 1 ELSE 0) + (IF o.escape THEN 0 ELSE 1)
    + (IF o.animate = "hook" THEN 1 ELSE 0) + (IF o.backdrop = "off" THEN 1 ELSE 0)
InitOptions ==
    {o \in OptionSets :
        \/ Rare(o) = 0
        \/ Rare(o) = 1 /\ o.allowCancel /\ o.okCloses /\ o.content # "view"}

\* this.options.content && this.options.content.trigger (61, 70, 79, 184, 202, 212, 256)
HasTrigger(i) == options[i].content = "view"

\* The default template (25-45): the close icon (28-30) and the Cancel
\* button (37-41) are rendered when allowCancel holds.
HasCloseIcon(i) == options[i].allowCancel
HasCancelButton(i) == options[i].allowCancel

\* The configuration open() hands to the widget (174-175).
KeyboardOption(i) == options[i].allowCancel
BackdropOption(i) ==
    IF options[i].backdrop = "default"
    THEN (IF options[i].allowCancel THEN "true" ELSE "static")
    ELSE "off"

\* ------------------------------------------------------------------ state

\* The program state as one record, so that a handler is a composition of
\* the steps it runs.
Cur ==
    [isRendered |-> isRendered, preventCloseFlag |-> preventCloseFlag,
     count |-> count, numModals |-> numModals,
     cancelListeners |-> cancelListeners, okCallbacks |-> okCallbacks,
     oneShown |-> oneShown, oneHidden |-> oneHidden,
     keyupHandlers |-> keyupHandlers, backdropClick |-> backdropClick,
     pendingHook |-> pendingHook, inDocument |-> inDocument,
     eventsBound |-> eventsBound,
     isShown |-> isShown, pendingShown |-> pendingShown,
     pendingHidden |-> pendingHidden, backdrops |-> backdrops,
     decrements |-> decrements, trace |-> trace]

\* The state as a handler of a new event finds it.
Begin == [Cur EXCEPT !.trace = <<>>]

Commit(s) ==
    /\ isRendered' = s.isRendered
    /\ preventCloseFlag' = s.preventCloseFlag
    /\ count' = s.count
    /\ numModals' = s.numModals
    /\ cancelListeners' = s.cancelListeners
    /\ okCallbacks' = s.okCallbacks
    /\ oneShown' = s.oneShown
    /\ oneHidden' = s.oneHidden
    /\ keyupHandlers' = s.keyupHandlers
    /\ backdropClick' = s.backdropClick
    /\ pendingHook' = s.pendingHook
    /\ inDocument' = s.inDocument
    /\ eventsBound' = s.eventsBound
    /\ isShown' = s.isShown
    /\ pendingShown' = s.pendingShown
    /\ pendingHidden' = s.pendingHidden
    /\ backdrops' = s.backdrops
    /\ decrements' = s.decrements
    /\ trace' = s.trace
    /\ UNCHANGED options

\* One entry of the trace: who did what on which instance.
Emit(s, who, i, what) == [s EXCEPT !.trace = Append(@, <<who, i, what>>)]

\* A sequence without the entries equal to x.
RECURSIVE Without(_, _)
Without(q, x) ==
    IF q = <<>> THEN <<>>
    ELSE IF Head(q) = x THEN Without(Tail(q), x)
    ELSE <<Head(q)>> \o Without(Tail(q), x)

\* ----------------------------------------------------- listeners' steps

\* preventClose (270-272).
preventClose(s, i) ==
    Emit([s EXCEPT !.preventCloseFlag[i] = TRUE], "listener", i, "preventClose")

\* Backbone's View.remove(), called at line 254: the element leaves the
\* document and jQuery drops the handlers and the widget bound to it.
Remove(s, i) ==
    Emit([s EXCEPT !.inDocument[i] = FALSE, !.eventsBound[i] = FALSE,
                   !.oneShown[i] = 0, !.oneHidden[i] = 0, !.isShown[i] = FALSE],
         "dom", i, "remove")

\* A 'hidden' handler that announces before it removes.
HiddenHandlerEmitsFirst(s, i) ==
    LET s1 == IF HasTrigger(i) THEN Emit(s, "content", i, "hidden") ELSE s
    IN Remove(Emit(s1, "modal", i, "hidden"), i)

\* The 'hidden' handler close() registers (253-261).
HiddenHandler(s, i) ==
    LET s1 == Remove(s, i)
        s2 == IF HasTrigger(i) THEN Emit(s1, "content", i, "hidden") ELSE s1
    IN Emit(s2, "modal", i, "hidden")

\* The 'shown' handler open() registers (179-189).
ShownHandler(s, i) ==
    LET s1 == IF HasTrigger(i) THEN Emit(s, "content", i, "shown") ELSE s
    IN Emit(s1, "modal", i, "shown")

\* jQuery runs the n one('hidden') handlers bound on $el, each once.
RECURSIVE RunHiddenHandlers(_, _, _)
RunHiddenHandlers(s, i, n) ==
    IF n <= 0 THEN s ELSE RunHiddenHandlers(HiddenHandler(s, i), i, n - 1)

\* jQuery runs the n one('shown') handlers bound on $el, each once.
RECURSIVE RunShownHandlers(_, _, _)
RunShownHandlers(s, i, n) ==
    IF n <= 0 THEN s ELSE RunShownHandlers(ShownHandler(s, i), i, n - 1)

\* ------------------------------------------------------- the Dialog Widget

\* The widget's 'hidden' signal on $el: the hide has completed, the widget
\* takes its backdrop away, and every one('hidden') handler registered so
\* far runs once.
SignalHidden(s, i) ==
    LET n == s.oneHidden[i]
        gone == ~s.isShown[i]
        s1 == [s EXCEPT !.pendingHidden[i] = FALSE, !.oneHidden[i] = 0,
                        !.backdrops = IF gone THEN Without(@, i) ELSE @,
                        !.backdropClick[i] = IF gone THEN <<>> ELSE @]
    IN RunHiddenHandlers(Emit(s1, "widget", i, "hidden"), i, n)

\* The widget's 'shown' signal on $el: every one('shown') handler registered
\* so far runs once.
SignalShown(s, i) ==
    LET n == s.oneShown[i]
        s1 == [s EXCEPT !.pendingShown[i] = FALSE, !.oneShown[i] = 0]
    IN RunShownHandlers(Emit(s1, "widget", i, "shown"), i, n)

\* $el.modal('hide') (247, 250).  The widget ignores the command when it is
\* not displayed; otherwise it hides and signals 'hidden', during the
\* command (sync) or later.
WidgetHide(s, i, sync) ==
    LET s0 == Emit(s, "widget", i, "hide")
        s1 == [s0 EXCEPT !.isShown[i] = FALSE]
    IN IF ~s.isShown[i] THEN s0
       ELSE IF sync THEN SignalHidden(s1, i)
       ELSE [s1 EXCEPT !.pendingHidden[i] = TRUE]

\* $el.modal({keyboard, backdrop}) (173-176).  The widget ignores the command
\* when it is displayed already; otherwise it attaches the element, inserts
\* its backdrop unless the backdrop option is off, and signals 'shown',
\* during the command (sync) or later.
WidgetShow(s, i, sync) ==
    LET s0 == Emit(s, "widget", i, "show")
        add == BackdropOption(i) # "off" /\ \A k \in 1..Len(s.backdrops) : s.backdrops[k] # i
        s1 == [s0 EXCEPT !.isShown[i] = TRUE, !.inDocument[i] = TRUE,
                         !.backdrops = IF add THEN Append(@, i) ELSE @]
    IN IF s.isShown[i] THEN s0
       ELSE IF sync THEN SignalShown(s1, i)
       ELSE [s1 EXCEPT !.pendingShown[i] = TRUE]

\* The widget hides on its own: Bootstrap answers Escape when its keyboard
\* option is set, and a click on its backdrop when its backdrop option is
\* true, before the handlers open() registered run.
WidgetDismiss(s, i, sync) ==
    LET s1 == Emit([s EXCEPT !.isShown[i] = FALSE], "widget", i, "dismiss")
    IN IF ~s.isShown[i] THEN s
       ELSE IF sync THEN SignalHidden(s1, i)
       ELSE [s1 EXCEPT !.pendingHidden[i] = TRUE]

\* The widgets of the instances of D up to n hide on their own.
RECURSIVE DismissAll(_, _, _, _)
DismissAll(s, D, n, sync) ==
    IF n = 0 THEN s
    ELSE LET s1 == DismissAll(s, D, n - 1, sync)
         IN IF n \in D THEN WidgetDismiss(s1, n, sync) ELSE s1

\* --------------------------------------------------------------- the Modal

\* content.$el with no content option (151): a TypeError.
RenderThrows(i) == options[i].content = "none"

\* render (125-159).
render(s, i) ==
    LET s1 == Emit(s, "dom", i, "html")
        s2 == IF options[i].animate = "hook" THEN Emit(s1, "hook", i, "open") ELSE s1
        s3 == IF options[i].content = "view" THEN Emit(s2, "content", i, "render") ELSE s2
    IN IF RenderThrows(i) THEN Emit(s2, "error", i, "TypeError")
       ELSE [s3 EXCEPT !.isRendered[i] = TRUE]

\* close() without the test of the prevent-close flag.
NeverStaysOpen(s, i) == FALSE

\* The test of lines 239-240.
ShouldStayOpen(s, i) == s.preventCloseFlag[i]

\* close() counting down only once nothing of the hide is pending.
CountCloseWhenHidden(s, i) ==
    IF s.pendingHidden[i] \/ s.pendingHook[i] > 0 THEN s
    ELSE [s EXCEPT !.count = @ - 1, !.decrements[i] = @ + 1]

\* Modal.count-- (263).
CountClose(s, i) == [s EXCEPT !.count = @ - 1, !.decrements[i] = @ + 1]

\* close (235-264).  e.syncHidden: the widget signals 'hidden' during the hide
\* command; e.hookSync: a custom animate hook calls its continuation before
\* it returns.
close(s, i, e) ==
    LET s0 == Emit(s, "call", i, "close")
        s1 == IF options[i].animate = "hook"
              THEN (IF e.hookSync
                    THEN WidgetHide(Emit(s0, "hook", i, "close"), i, e.syncHidden)
                    ELSE [Emit(s0, "hook", i, "close") EXCEPT !.pendingHook[i] = @ + 1])
              ELSE WidgetHide(s0, i, e.syncHidden)
        s2 == [s1 EXCEPT !.oneHidden[i] = @ + 1]
    IN IF ShouldStayOpen(s, i)
       THEN [s0 EXCEPT !.preventCloseFlag[i] = FALSE]
       ELSE CountClose(s2, i)

\* close() once per internal 'cancel' listener (218-220).
RECURSIVE RunClose(_, _, _, _)
RunClose(s, i, e, n) == IF n <= 0 THEN s ELSE RunClose(close(s, i, e), i, e, n - 1)

\* content.trigger(ev, this) behind the capability test (61-63, ...).  e.vetoContent:
\* a listener of the content view calls preventClose() on the Modal it is handed.
ContentTrigger(s, i, ev, e) ==
    LET s1 == Emit(s, "content", i, ev)
    IN IF ~HasTrigger(i) THEN s
       ELSE IF e.vetoContent /\ ev \in {"ok", "cancel"} THEN preventClose(s1, i)
       ELSE s1

\* this.trigger('cancel') (59, 68, 206, 210): Backbone runs the listeners in
\* the order of their registration.  e.vetoBefore: a listener registered
\* before open() calls preventClose(); e.vetoAfter: one registered after
\* open() does.  Between them run the listeners open() registered (218).
TriggerCancel(s, i, e) ==
    LET s1 == Emit(s, "modal", i, "cancel")
        s2 == IF e.vetoBefore THEN preventClose(s1, i) ELSE s1
        s3 == RunClose(s2, i, e, s.cancelListeners[i])
    IN IF e.vetoAfter THEN preventClose(s3, i) ELSE s3

\* this.trigger('ok') (77): the application's listeners and the callbacks of
\* open(cb) (226).
RECURSIVE RunCallbacks(_, _, _)
RunCallbacks(s, i, n) ==
    IF n <= 0 THEN s ELSE RunCallbacks(Emit(s, "callback", i, "ok"), i, n - 1)

TriggerOk(s, i, e) ==
    LET s1 == Emit(s, "modal", i, "ok")
        s2 == IF e.vetoBefore THEN preventClose(s1, i) ELSE s1
        s3 == RunCallbacks(s2, i, s.okCallbacks[i])
    IN IF e.vetoAfter THEN preventClose(s3, i) ELSE s3

\* $('.modal-backdrop:eq(' + numModals + ')') (193): the owner of the
\* backdrop at that index, 0 when the selector matches nothing.  A negative
\* index counts from the end in jQuery 1.8 and later (fromEnd) and matches
\* nothing before.
BackdropAt(s, n, fromEnd) ==
    LET len == Len(s.backdrops)
    IN IF 0 <= n /\ n < len THEN s.backdrops[n + 1]
       ELSE IF n < 0 /\ fromEnd /\ -n <= len THEN s.backdrops[len + n + 1]
       ELSE 0

\* open() attaching the dismissal handlers whatever allowCancel says.
AlwaysAllowCancel(i) == TRUE

\* The test of line 200.
AllowCancel(i) == options[i].allowCancel

\* open() without Modal.count++.
CountOpenNoIncrement(s, i) == [s EXCEPT !.cancelListeners[i] = @ + 1]

\* Lines 218-222 of open: the 'cancel' listener that calls close(), and
\* Modal.count++.
CountOpen(s, i) == [s EXCEPT !.cancelListeners[i] = @ + 1, !.count = @ + 1]

\* open() rendering on every call.
AlwaysRenders(s, i) == TRUE

\* The test of line 167.
NeedsRender(s, i) == ~s.isRendered[i]

\* open (166-230).  cb: a callback is passed; syncShown: the widget signals
\* 'shown' during the display command.
open(s, i, cb, syncShown, fromEnd) ==
    LET s1 == IF NeedsRender(s, i) THEN render(s, i) ELSE s
        s2 == WidgetShow(s1, i, syncShown)
        s3 == [s2 EXCEPT !.oneShown[i] = @ + 1, !.numModals[i] = s2.count]
        bd == BackdropAt(s3, s3.numModals[i], fromEnd)
        s4 == IF AllowCancel(i)
              THEN [s3 EXCEPT !.backdropClick =
                                  IF bd = 0 THEN @ ELSE [@ EXCEPT ![bd] = Append(@, i)],
                              !.keyupHandlers = Append(@, i)]
              ELSE s3
        s5 == CountOpen(s4, i)
    IN IF NeedsRender(s, i) /\ RenderThrows(i) THEN s1
       ELSE IF cb THEN [s5 EXCEPT !.okCallbacks[i] = @ + 1]
       ELSE s5

\* events['click .close'] (56-64) and events['click .cancel'] (65-73).
ClickCancelHandler(s, i, e) == ContentTrigger(TriggerCancel(s, i, e), i, "cancel", e)

\* An OK click that closes whatever okCloses says.
AlwaysOkCloses(i) == TRUE

\* The test of line 83.
OkCloses(i) == options[i].okCloses

\* events['click .ok'] (74-86).
ClickOkHandler(s, i, e) ==
    LET s1 == ContentTrigger(TriggerOk(s, i, e), i, "ok", e)
    IN IF OkCloses(i) THEN close(s1, i, e) ELSE s1

\* The backdrop click handler of open (201-207).
BackdropHandler(s, i, e) == TriggerCancel(ContentTrigger(s, i, "cancel", e), i, e)

\* The keyup handler of open (209-215).
KeyupHandler(s, i, which, e) ==
    LET s1 == IF which = EscapeKey THEN TriggerCancel(s, i, e) ELSE s
    IN IF HasTrigger(i) /\ which = EscapeKey THEN Emit(s1, "content", i, "shown") ELSE s1

\* jQuery runs the one-shot handlers bound to the clicked backdrop, in order.
RECURSIVE RunBackdropHandlers(_, _, _)
RunBackdropHandlers(s, q, e) ==
    IF q = <<>> THEN s ELSE RunBackdropHandlers(BackdropHandler(s, Head(q), e), Tail(q), e)

\* jQuery runs the one-shot keyup handlers bound to the document, in order.
RECURSIVE RunKeyupHandlers(_, _, _, _)
RunKeyupHandlers(s, q, which, e) ==
    IF q = <<>> THEN s
    ELSE RunKeyupHandlers(KeyupHandler(s, Head(q), which, e), Tail(q), which, e)

\* -------------------------------------------------------- the environment

\* What the environment decides during one handler.
Envs ==
    [vetoBefore : BOOLEAN, vetoAfter : BOOLEAN, vetoContent : BOOLEAN,
     syncHidden : BOOLEAN, hookSync : BOOLEAN]

\* The decisions that can matter to the handlers of the instances in S.
EnvsOf(S) ==
    {e \in Envs : /\ e.vetoContent => \E i \in S : HasTrigger(i)
                  /\ e.hookSync => \E i \in S : options[i].animate = "hook"
                  /\ (e.vetoBefore \/ e.vetoAfter \/ e.syncHidden) => S # {}}

\* The decisions that can matter to a close() the application calls.
NoVeto == {e \in Envs : ~e.vetoBefore /\ ~e.vetoAfter /\ ~e.vetoContent}

\* The instances in a sequence of handlers.
Range(q) == {q[k] : k \in 1..Len(q)}

\* The element is on display: attached, and the widget shows it or is still
\* animating it out.
Visible(i) == inDocument[i] /\ (isShown[i] \/ pendingHidden[i])

\* ------------------------------------------------------------- the actions

Constructed ==
    /\ options \in [Modals -> InitOptions]
    /\ \A i \in Modals : i > 1 => options[i] = DefaultOptions
    /\ isRendered = [i \in Modals |-> FALSE]
    /\ preventCloseFlag = [i \in Modals |-> FALSE]
    /\ count = 0
    /\ numModals = [i \in Modals |-> 0]
    /\ cancelListeners = [i \in Modals |-> 0]
    /\ okCallbacks = [i \in Modals |-> 0]
    /\ oneShown = [i \in Modals |-> 0]
    /\ oneHidden = [i \in Modals |-> 0]
    /\ keyupHandlers = <<>>
    /\ backdropClick = [i \in Modals |-> <<>>]
    /\ pendingHook = [i \in Modals |-> 0]
    /\ inDocument = [i \in Modals |-> FALSE]
    /\ eventsBound = [i \in Modals |-> TRUE]
    /\ isShown = [i \in Modals |-> FALSE]
    /\ pendingShown = [i \in Modals |-> FALSE]
    /\ pendingHidden = [i \in Modals |-> FALSE]
    /\ backdrops = <<>>
    /\ decrements = [i \in Modals |-> 0]
    /\ trace = <<>>

\* A session, and a short session.
Init == Constructed /\ events = 0 /\ eventLimit = MaxEvents
InitShort == Constructed /\ events = 0 /\ eventLimit = ShortEvents

\* The application or the user acts once more.
Act == events < eventLimit /\ events' = events + 1 /\ UNCHANGED eventLimit

\* A step of the widget or of an animate hook.
Env == UNCHANGED <<events, eventLimit>>

\* The application calls render().
Render(i) == Act /\ Commit(render(Emit(Begin, "app", i, "render()"), i))

\* The application calls open() or open(cb).
Open(i) ==
    /\ Act
    /\ \E cb, syncShown \in BOOLEAN : \E fromEnd \in (IF count < 0 THEN BOOLEAN ELSE {FALSE}) :
         Commit(open(Emit(Begin, "app", i, IF cb THEN "open(cb)" ELSE "open()"), i, cb, syncShown, fromEnd))

\* The application calls close() on a Modal it has opened.
Close(i) ==
    /\ cancelListeners[i] > 0
    /\ Act
    /\ \E e \in EnvsOf({i}) \cap NoVeto : Commit(close(Emit(Begin, "app", i, "close()"), i, e))

\* The user clicks the close icon.
ClickClose(i) ==
    /\ Visible(i) /\ eventsBound[i] /\ HasCloseIcon(i)
    /\ Act
    /\ \E e \in EnvsOf({i}) : Commit(ClickCancelHandler(Emit(Begin, "user", i, "click .close"), i, e))

\* The user clicks the Cancel button.
ClickCancel(i) ==
    /\ Visible(i) /\ eventsBound[i] /\ HasCancelButton(i)
    /\ Act
    /\ \E e \in EnvsOf({i}) : Commit(ClickCancelHandler(Emit(Begin, "user", i, "click .cancel"), i, e))

\* The user clicks the OK button.
ClickOk(i) ==
    /\ Visible(i) /\ eventsBound[i]
    /\ Act
    /\ \E e \in EnvsOf({i}) : Commit(ClickOkHandler(Emit(Begin, "user", i, "click .ok"), i, e))

\* The user clicks the backdrop element the widget inserted for instance o.
BackdropClick(o) ==
    /\ \E k \in 1..Len(backdrops) : backdrops[k] = o
    /\ Act
    /\ \E e \in EnvsOf(Range(backdropClick[o]) \cup {o}) :
         LET s0 == Emit([Begin EXCEPT !.backdropClick[o] = <<>>], "user", o, "click backdrop")
             s1 == IF BackdropOption(o) = "true" THEN WidgetDismiss(s0, o, e.syncHidden) ELSE s0
         IN Commit(RunBackdropHandlers(s1, backdropClick[o], e))

\* The widgets that answer Escape.
Dismissable == {i \in Modals : isShown[i] /\ KeyboardOption(i)}

\* The user presses and releases a key.
KeyUp(which) ==
    /\ Act
    /\ \E e \in EnvsOf(IF which = EscapeKey THEN Range(keyupHandlers) \cup Dismissable ELSE {}) :
       \E D \in (IF which = EscapeKey THEN {{}, Dismissable} ELSE {{}}) :
         LET s0 == Emit([Begin EXCEPT !.keyupHandlers = <<>>], "user", which, "keyup")
             s1 == DismissAll(s0, D, NumModals, e.syncHidden)
         IN Commit(RunKeyupHandlers(s1, keyupHandlers, which, e))

\* The widget completes a display and signals 'shown'.
WidgetShown(i) == pendingShown[i] /\ Env /\ Commit(SignalShown(Cur, i))

\* The widget completes a hide and signals 'hidden'.
WidgetHidden(i) == pendingHidden[i] /\ Env /\ Commit(SignalHidden(Cur, i))

\* A custom animate hook calls the continuation it was handed (246-248).
AnimateContinue(i) ==
    /\ pendingHook[i] > 0
    /\ Env
    /\ \E sync \in BOOLEAN :
         Commit(WidgetHide([Cur EXCEPT !.pendingHook[i] = @ - 1], i, sync))

Next ==
    \/ \E i \in Modals : Render(i)
    \/ \E i \in Modals : Open(i)
    \/ \E i \in Modals : Close(i)
    \/ \E i \in Modals : ClickClose(i)
    \/ \E i \in Modals : ClickCancel(i)
    \/ \E i \in Modals : ClickOk(i)
    \/ \E o \in Modals : BackdropClick(o)
    \/ \E which \in Keys : KeyUp(which)
    \/ \E i \in Modals : WidgetShown(i)
    \/ \E i \in Modals : WidgetHidden(i)
    \/ \E i \in Modals : AnimateContinue(i)

Spec == Init /\ [][Next]_vars
SpecShort == InitShort /\ [][Next]_vars

\* ------------------------------------------------------------- properties

\* x is in the trace tr, and how many times.
In(tr, x) == \E k \in 1..Len(tr) : tr[k] = x
Occurrences(tr, x) == Cardinality({k \in 1..Len(tr) : tr[k] = x})

\* The event the application or the user acted with last.
LastAct == IF trace = <<>> THEN <<"none", 0, "none">> ELSE trace[1]

\* This step is the handling of the event ev.
ActStep(ev) == events' = events + 1 /\ trace'[1] = ev

\* Nothing is pending for instance i: no signal of the widget, no
\* continuation of an animate hook.
Quiet(i) == ~pendingShown[i] /\ ~pendingHidden[i] /\ pendingHook[i] = 0

\* The instances open() has been called on, and those on display.
Opened == {i \in Modals : cancelListeners[i] > 0}
OnDisplay == {i \in Modals : isShown[i]}

\* C1: open() followed immediately by a close() that is not vetoed ends,
\* once the widget and the animate hook have nothing pending, with the
\* element removed from the document and Modal.count at the value it had
\* before open().
C1_OpenThenCloseRemoves ==
    \A i \in Modals :
        (/\ events = 2 /\ cancelListeners[i] = 1
         /\ LastAct = <<"app", i, "close()">> /\ decrements[i] = 1
         /\ Quiet(i))
        => (~inDocument[i] /\ count = numModals[i])

\* C2: a click on OK of a Modal with okCloses, in whose 'ok' listeners
\* preventClose() is not called, emits 'ok' exactly once and decrements
\* Modal.count by exactly 1, and once nothing is pending the element is
\* removed from the document.
C2_OkClickCloses ==
    /\ [][\A i \in Modals :
            (/\ ActStep(<<"user", i, "click .ok">>) /\ options[i].okCloses
             /\ ~In(trace', <<"listener", i, "preventClose">>))
            => (/\ Occurrences(trace', <<"modal", i, "ok">>) = 1
                /\ count' = count - 1)]_vars
    /\ [](\A i \in Modals :
            (/\ LastAct = <<"user", i, "click .ok">> /\ options[i].okCloses
             /\ ~In(trace, <<"listener", i, "preventClose">>)
             /\ Quiet(i))
            => ~inDocument[i])

\* C3: when an 'ok' listener calls preventClose() during an OK click on a
\* Modal with okCloses, the close of that click is aborted: the widget is not
\* asked to hide, the element stays in the document, Modal.count is unchanged.
C3_OkVetoAborts ==
    [][\A i \in Modals :
         (/\ ActStep(<<"user", i, "click .ok">>) /\ options[i].okCloses
          /\ In(trace', <<"listener", i, "preventClose">>))
         => (/\ In(trace', <<"call", i, "close">>)
             /\ ~In(trace', <<"widget", i, "hide">>)
             /\ ~In(trace', <<"hook", i, "close">>)
             /\ inDocument'[i] /\ isShown'[i] = isShown[i]
             /\ oneHidden'[i] = oneHidden[i]
             /\ count' = count)]_vars

\* C3's case: an OK click on a displayed Modal with okCloses was vetoed.
C3_Witness ==
    \E i \in Modals :
        /\ LastAct = <<"user", i, "click .ok">> /\ options[i].okCloses
        /\ In(trace, <<"listener", i, "preventClose">>)
        /\ In(trace, <<"call", i, "close">>)
        /\ isShown[i] /\ count = 1

\* C4: when a 'cancel' listener calls preventClose() while a cancel event
\* (close icon, Cancel button, backdrop click, Escape) is handled, the close
\* of that event is vetoed: the Modal does not ask the widget to hide, the
\* element stays in the document and the Modal does not decrement Modal.count.
C4_CancelVetoAborts ==
    [][\A i \in Modals :
         (/\ events' = events + 1
          /\ In(trace', <<"modal", i, "cancel">>)
          /\ In(trace', <<"listener", i, "preventClose">>))
         => (/\ ~In(trace', <<"widget", i, "hide">>)
             /\ ~In(trace', <<"hook", i, "close">>)
             /\ inDocument'[i] = inDocument[i]
             /\ decrements'[i] = decrements[i])]_vars

\* C5: a close attempt during whose handling preventClose() is not called
\* proceeds to hide the modal, whatever was vetoed before it.
C5_VetoDoesNotPersist ==
    \A i \in Modals :
        (/\ In(trace, <<"call", i, "close">>)
         /\ ~In(trace, <<"listener", i, "preventClose">>))
        => (In(trace, <<"widget", i, "hide">>) \/ In(trace, <<"hook", i, "close">>))

\* A key press or a click on a backdrop is handled in this step.
DismissalStep ==
    /\ events' = events + 1
    /\ \/ trace'[1][3] = "keyup"
       \/ trace'[1][3] = "click backdrop"

\* C6: for a Modal with allowCancel=false, a key press or a backdrop click
\* emits no 'cancel' (from the Modal or to the content view), does not call
\* close(), leaves the element and the widget as they are and does not let
\* the Modal decrement Modal.count; Modal.count is unchanged when no Modal
\* with allowCancel has been opened.
C6_NoCancelWithoutAllowCancel ==
    [][DismissalStep =>
         /\ \A i \in Modals :
              ~options[i].allowCancel =>
                  /\ ~In(trace', <<"modal", i, "cancel">>)
                  /\ ~In(trace', <<"content", i, "cancel">>)
                  /\ ~In(trace', <<"call", i, "close">>)
                  /\ ~In(trace', <<"widget", i, "dismiss">>)
                  /\ inDocument'[i] = inDocument[i]
                  /\ isShown'[i] = isShown[i]
                  /\ decrements'[i] = decrements[i]
         /\ (\A j \in Opened : ~options[j].allowCancel) => count' = count]_vars

\* C6's case: Escape was pressed, or the backdrop clicked, while a Modal with
\* allowCancel=false was on display.
C6_Witness ==
    \E i \in Modals :
        /\ ~options[i].allowCancel /\ isShown[i] /\ inDocument[i]
        /\ LastAct \in {<<"user", EscapeKey, "keyup">>, <<"user", i, "click backdrop">>}
        /\ count = 1

\* C7: while a Modal with allowCancel is on display, a click on its close
\* icon, its Cancel button or its backdrop, and an Escape key press, each
\* emit 'cancel' from the Modal and call close().
C7_DismissalCancels ==
    [][\A i \in Modals :
         (/\ options[i].allowCancel /\ isShown[i] /\ inDocument[i]
          /\ \/ ActStep(<<"user", i, "click .close">>)
             \/ ActStep(<<"user", i, "click .cancel">>)
             \/ ActStep(<<"user", i, "click backdrop">>)
             \/ ActStep(<<"user", EscapeKey, "keyup">>))
         => (/\ In(trace', <<"modal", i, "cancel">>)
             /\ In(trace', <<"call", i, "close">>))]_vars

\* C8: the content view of a Modal receives each of 'cancel', 'ok', 'shown'
\* and 'hidden' exactly as many times as the Modal emits it.
C8_EventsForwarded ==
    \A i \in Modals :
        HasTrigger(i) =>
            \A ev \in {"cancel", "ok", "shown", "hidden"} :
                Occurrences(trace, <<"content", i, ev>>)
                    = Occurrences(trace, <<"modal", i, ev>>)

\* C9: Modal.count is the number of Modal instances on display, and is never
\* negative.
C9_CountIsDisplayed == count = Cardinality(OnDisplay) /\ count >= 0

Touched(tr, j) ==
    \/ In(tr, <<"modal", j, "cancel">>) \/ In(tr, <<"modal", j, "hidden">>)
    \/ In(tr, <<"call", j, "close">>) \/ In(tr, <<"widget", j, "hide">>)
    \/ In(tr, <<"dom", j, "remove">>)

\* C11: a click on the close icon, the Cancel button, the OK button or the
\* backdrop of one instance emits no 'cancel' or 'hidden' on another
\* instance, does not hide it and does not remove its element; one Escape
\* key press makes at most one Modal emit 'cancel'.
C11_NoCouplingBetweenInstances ==
    [][/\ \A i \in Modals :
            (\/ ActStep(<<"user", i, "click .close">>)
             \/ ActStep(<<"user", i, "click .cancel">>)
             \/ ActStep(<<"user", i, "click .ok">>)
             \/ ActStep(<<"user", i, "click backdrop">>))
            => \A j \in Modals \ {i} :
                 /\ ~Touched(trace', j)
                 /\ inDocument'[j] = inDocument[j]
       /\ ActStep(<<"user", EscapeKey, "keyup">>)
            => Cardinality({j \in Modals : In(trace', <<"modal", j, "cancel">>)}) <= 1]_vars

\* C12: for a Modal constructed with escape=false, an Escape key press emits
\* no 'cancel' and does not call close().
C12_EscapeOptionHonoured ==
    [][ActStep(<<"user", EscapeKey, "keyup">>)
         => \A i \in Modals :
              ~options[i].escape
                  => /\ ~In(trace', <<"modal", i, "cancel">>)
                     /\ ~In(trace', <<"call", i, "close">>)]_vars

\* The application calls open() or open(cb) on instance i in this step.
OpenStep(i) == ActStep(<<"app", i, "open()">>) \/ ActStep(<<"app", i, "open(cb)">>)

\* C13: open() on a Modal constructed without a content option raises no
\* error, sets the rendered flag, asks the widget to display and increments
\* Modal.count.
C13_ContentOptional ==
    [][\A i \in Modals :
         (OpenStep(i) /\ options[i].content = "none")
         => (/\ ~In(trace', <<"error", i, "TypeError">>)
             /\ isRendered'[i]
             /\ In(trace', <<"widget", i, "show">>)
             /\ count' = count + 1)]_vars

\* C14: with okCloses=false a click on OK emits 'ok' once, forwards it to the
\* content view, and does not call close(): the widget is not asked to hide,
\* the element stays in the document and Modal.count is unchanged.
C14_OkWithoutClose ==
    [][\A i \in Modals :
         (ActStep(<<"user", i, "click .ok">>) /\ ~options[i].okCloses)
         => (/\ Occurrences(trace', <<"modal", i, "ok">>) = 1
             /\ HasTrigger(i) => Occurrences(trace', <<"content", i, "ok">>) = 1
             /\ ~In(trace', <<"call", i, "close">>)
             /\ ~In(trace', <<"widget", i, "hide">>)
             /\ ~In(trace', <<"hook", i, "close">>)
             /\ inDocument'[i] = inDocument[i] /\ isShown'[i] = isShown[i]
             /\ count' = count)]_vars

\* C14's case: OK was clicked on a displayed Modal with okCloses=false whose
\* content is a view.
C14_Witness ==
    \E i \in Modals :
        /\ LastAct = <<"user", i, "click .ok">> /\ ~options[i].okCloses
        /\ HasTrigger(i) /\ In(trace, <<"content", i, "ok">>)
        /\ isShown[i] /\ inDocument[i] /\ count = 1

\* Every y in the handler run tr comes after an x.
Before(tr, x, y) ==
    \A k \in 1..Len(tr) : tr[k] = y => \E m \in 1..(k - 1) : tr[m] = x

\* The application called open() or open(cb) on instance i last.
LastOpen(i) == LastAct \in {<<"app", i, "open()">>, <<"app", i, "open(cb)">>}

\* C15: once an open() that asked the widget to display has nothing of the
\* display pending, the Modal has emitted 'shown' exactly once, after the
\* widget's signal, and after the content view got its 'shown'.
C15_ShownOnceAfterOpen ==
    \A i \in Modals :
        (LastOpen(i) /\ In(trace, <<"widget", i, "show">>) /\ ~pendingShown[i])
        => (/\ Occurrences(trace, <<"modal", i, "shown">>) = 1
            /\ Before(trace, <<"widget", i, "shown">>, <<"modal", i, "shown">>)
            /\ HasTrigger(i) =>
                 Before(trace, <<"content", i, "shown">>, <<"modal", i, "shown">>))

\* C16: the element is removed only in answer to the widget's 'hidden'
\* signal; the 'hidden' handler removes the element, then forwards 'hidden'
\* to the content view, then emits 'hidden' from the Modal; where the Modal
\* has emitted 'hidden' its element is out of the document.
C16_RemovedOnHiddenSignal ==
    /\ [](\A i \in Modals :
           /\ \A k \in 1..Len(trace) :
                /\ trace[k] = <<"dom", i, "remove">>
                     => \E m \in 1..(k - 1) : trace[m] = <<"widget", i, "hidden">>
                /\ trace[k] = <<"content", i, "hidden">>
                     => k > 1 /\ trace[k - 1] = <<"dom", i, "remove">>
                /\ trace[k] = <<"modal", i, "hidden">>
                     => IF HasTrigger(i)
                        THEN k > 2 /\ trace[k - 1] = <<"content", i, "hidden">>
                                   /\ trace[k - 2] = <<"dom", i, "remove">>
                        ELSE k > 1 /\ trace[k - 1] = <<"dom", i, "remove">>
           /\ In(trace, <<"modal", i, "hidden">>) => ~inDocument[i])
    /\ [][\A i \in Modals :
            (inDocument[i] /\ ~inDocument'[i])
            => (In(trace', <<"widget", i, "hidden">>) /\ decrements'[i] > 0)]_vars

\* C16's case: after a close that was not vetoed the widget signalled
\* 'hidden' and the handler of a Modal with a content view ran.
C16_Witness ==
    \E i \in Modals :
        /\ HasTrigger(i) /\ decrements[i] = 1
        /\ In(trace, <<"widget", i, "hidden">>)
        /\ In(trace, <<"dom", i, "remove">>)
        /\ In(trace, <<"content", i, "hidden">>)
        /\ In(trace, <<"modal", i, "hidden">>)
        /\ ~inDocument[i]

\* C17: once the rendered flag of a Modal is set, no call of render() or
\* open() builds its markup or invokes the content view's render() again.
C17_RenderGuarded ==
    [][\A i \in Modals :
         (events' = events + 1 /\ isRendered[i])
         => (/\ ~In(trace', <<"dom", i, "html">>)
             /\ ~In(trace', <<"content", i, "render">>))]_vars

\* C17 as amended: the rendered flag guards open(): open() on a Modal whose
\* rendered flag is set builds no markup and does not invoke the content
\* view's render().
C17_OpenRendersOnce ==
    [][\A i \in Modals :
         (OpenStep(i) /\ isRendered[i])
         => (/\ ~In(trace', <<"dom", i, "html">>)
             /\ ~In(trace', <<"content", i, "render">>)
             /\ isRendered'[i])]_vars

\* The amended C17's case: open() was called on a Modal rendered before.
C17_Witness ==
    \E i \in Modals :
        /\ LastOpen(i) /\ events = 2 /\ isRendered[i]
        /\ ~In(trace, <<"dom", i, "html">>)
        /\ In(trace, <<"widget", i, "show">>)

\* A close() that finds the flag set: Modal.count and the 'hidden' handlers
\* stay as they are and the flag is cleared.
VetoedClose(i) ==
    /\ count' = count /\ decrements' = decrements
    /\ ~preventCloseFlag'[i]
    /\ oneHidden'[i] = oneHidden[i]

\* C18: a close() that is not vetoed has decremented Modal.count by exactly 1
\* when it returns, whatever of the hide is still pending; a vetoed close()
\* leaves Modal.count unchanged, clears the flag and registers no 'hidden'
\* handler.  close() is called by the application, or by an OK click.
C18_CloseCountsAtOnce ==
    [][\A i \in Modals :
         /\ ActStep(<<"app", i, "close()">>)
              => IF preventCloseFlag[i] THEN VetoedClose(i)
                 ELSE count' = count - 1 /\ decrements'[i] = decrements[i] + 1
         /\ (ActStep(<<"user", i, "click .ok">>) /\ options[i].okCloses)
              => IF preventCloseFlag[i] \/ In(trace', <<"listener", i, "preventClose">>)
                 THEN VetoedClose(i)
                 ELSE count' = count - 1 /\ decrements'[i] = decrements[i] + 1]_vars

\* C18's case: close() has returned and counted while the continuation of a
\* custom animate hook is still outstanding.
C18_Witness ==
    \E i \in Modals :
        /\ LastAct = <<"app", i, "close()">>
        /\ pendingHook[i] > 0 /\ isShown[i]
        /\ decrements[i] = 1 /\ count = 0

\* C19: per instance, Modal.count is decremented at most once per open(),
\* and one run of handlers emits 'hidden' and removes the element at most
\* once.
C19_OncePerOpen ==
    \A i \in Modals :
        /\ decrements[i] <= cancelListeners[i]
        /\ Occurrences(trace, <<"modal", i, "hidden">>) <= 1
        /\ Occurrences(trace, <<"dom", i, "remove">>) <= 1

\* C20: the handling of a user event calls close() once per 'cancel' the
\* Modal emits; an OK click on a Modal that open(cb) was called on invokes
\* the callback exactly once, and nothing else invokes it.
C20_OneListenerPerEvent ==
    [][\A i \in Modals :
         /\ (events' = events + 1 /\ trace'[1][1] = "user"
                 /\ trace'[1] # <<"user", i, "click .ok">>)
              => Occurrences(trace', <<"call", i, "close">>)
                     = Occurrences(trace', <<"modal", i, "cancel">>)
         /\ (ActStep(<<"user", i, "click .ok">>) /\ okCallbacks[i] > 0)
              => Occurrences(trace', <<"callback", i, "ok">>) = 1
         /\ (events' = events + 1 /\ trace'[1] # <<"user", i, "click .ok">>)
              => ~In(trace', <<"callback", i, "ok">>)]_vars

====
